---- MODULE Spec2Model ----
(***************************************************************************)
(* TI AM33xx DPLL clock driver (drivers/clk/ti/clk-am3-dpll.c).            *)
(*                                                                         *)
(* The driver is built for a 32-bit ARM target: unsigned long, long and    *)
(* int are 32 bits wide.  A 32-bit (or wider) unsigned quantity is held    *)
(* as a pair <<hi, lo>> of base-65536 digits, lo \in 0..65535, so that     *)
(* every intermediate value of the model stays inside the integers the     *)
(* model checker can represent.  A register word is held as the set of     *)
(* the bit positions (0..31) that are set, so that and/or/not/shift are    *)
(* set operations and a field that does not fit its mask loses bits.       *)
(***************************************************************************)
EXTENDS Integers, Sequences, FiniteSets, TLC

\* ------------------------------------------------------------------------
\* 32-bit arithmetic
\* ------------------------------------------------------------------------
B == 2 ^ 16

INT_MAX == 2147483647

LONG_MIN == (-2147483647) - 1

\* the unsigned word holding the non-negative integer x (x <= INT_MAX)
U(x) == <<x \div B, x % B>>

\* the integer held by a word below 2^31
N(a) == a[1] * B + a[2]

LtU(a, b) == a[1] < b[1] \/ (a[1] = b[1] /\ a[2] < b[2])

\* a * m without loss, m < 2^15: the high digit may exceed 65535
MulWide(a, m) ==
    LET low == a[2] * m
    IN  <<a[1] * m + (low \div B), low % B>>

\* a * m computed in unsigned long: the product modulo 2^32
MulU32(a, m) ==
    LET p == MulWide(a, m)
    IN  <<p[1] % B, p[2]>>

\* a / d, d in 1..32767 (long division on the two digits)
DivU(a, d) == <<a[1] \div d, (((a[1] % d) * B) + a[2]) \div d>>

\* a - b computed in unsigned long: the difference modulo 2^32
SubU32(a, b) ==
    LET borrow == IF a[2] < b[2] THEN 1 ELSE 0
    IN  <<(a[1] - b[1] - borrow) % B, (a[2] - b[2]) % B>>

\* conversion of an unsigned long to long (two's complement)
ToLong(a) == IF a[1] >= 32768 THEN ((a[1] - B) * B) + a[2] ELSE N(a)

\* -EFAULT as an unsigned long, and IS_ERR_VALUE(x): x >= (ulong)-MAX_ERRNO
EFAULT == 14

MAX_ERRNO == 4095

ErrVal(e) == <<B - 1, B - e>>

IS_ERR_VALUE(x) == ~LtU(x, ErrVal(MAX_ERRNO))

\* ------------------------------------------------------------------------
\* clk_ti_am3_dpll_round_rate
\* ------------------------------------------------------------------------
DivMax == 128

MultMin == 2

MultMax == 2047

\* abs() of a long; negating LONG_MIN is undefined, flagged by AbsUndefined
AbsUndefined(x) == x = LONG_MIN

abs(x) == IF x = LONG_MIN THEN LONG_MIN ELSE IF x < 0 THEN -x ELSE x

\* locals of round_rate before the loops (lines 41-51); brk: the inner loop
\* was left by a break.  The other fields are bookkeeping of the scan:
\* wrapped: some product ref_rate * m it formed reached 2^32; trunc: some
\* difference r - rate did not fit a long; ub: abs() was given LONG_MIN;
\* evals: the number of passes of the loop body
SearchInit(rate) ==
    [ret |-> ErrVal(EFAULT), err_min |-> ToLong(rate),
     mult |-> INT_MAX, div |-> INT_MAX, brk |-> FALSE,
     wrapped |-> FALSE, trunc |-> FALSE, ub |-> FALSE, evals |-> 0]

\* one pass of the inner loop body (lines 55-67)
SearchBody(s, ref, rate, d, m) ==
    LET r    == DivU(MulU32(ref, m), d)
        diff == ToLong(SubU32(r, rate))
        err  == abs(diff)
        s1   == [s EXCEPT !.wrapped = s.wrapped \/ MulWide(ref, m)[1] >= B,
                          !.trunc = s.trunc \/ (~LtU(r, rate) /\ diff < 0),
                          !.ub = s.ub \/ AbsUndefined(diff),
                          !.evals = s.evals + 1]
    IN  IF err < s.err_min
        THEN [s1 EXCEPT !.err_min = err, !.ret = r, !.mult = m, !.div = d,
                        !.brk = (err = 0)]
        ELSE IF LtU(rate, r)
             THEN [s1 EXCEPT !.brk = TRUE]
             ELSE s1

\* the inner loop over m = lo..hi in ascending order (line 54), left as soon
\* as a pass breaks
RECURSIVE SearchInner(_, _, _, _, _, _)
SearchInner(s, ref, rate, d, lo, hi) ==
    IF s.brk THEN s
    ELSE IF lo = hi THEN SearchBody(s, ref, rate, d, lo)
    ELSE LET mid == (lo + hi) \div 2
         IN  SearchInner(SearchInner(s, ref, rate, d, lo, mid),
                         ref, rate, d, mid + 1, hi)

\* the outer loop over d = lo..hi in ascending order (line 53), entered for
\* a divider only while err_min is not zero
RECURSIVE SearchOuter(_, _, _, _, _)
SearchOuter(s, ref, rate, lo, hi) ==
    IF s.err_min = 0 THEN s
    ELSE IF lo = hi
         THEN SearchInner([s EXCEPT !.brk = FALSE], ref, rate, lo,
                          MultMin, MultMax)
    ELSE LET mid == (lo + hi) \div 2
         IN  SearchOuter(SearchOuter(s, ref, rate, lo, mid),
                         ref, rate, mid + 1, hi)

\* the target after the clamp of lines 43-47
ClampRate(mx, rate) ==
    IF mx # U(0) /\ LtU(mx, rate) THEN mx ELSE rate

clk_ti_am3_dpll_round_rate(mx, ref, rate) ==
    SearchOuter(SearchInit(ClampRate(mx, rate)), ref, ClampRate(mx, rate), 1, DivMax)

\* the values round_rate stores in the u16 and u8 fields of priv (lines 71-72)
StoreU16(x) == x % (2 ^ 16)

StoreU8(x) == x % (2 ^ 8)

\* ------------------------------------------------------------------------
\* Register words and the fields of asm/arch/clock.h
\* ------------------------------------------------------------------------
Word == 0..31

RECURSIVE Val(_)
\* the number held by a word whose bit 31 is clear
Val(w) == IF w = {} THEN 0
          ELSE LET b == CHOOSE i \in w : TRUE
               IN  (2 ^ b) + Val(w \ {b})

\* the word holding the int x (two's complement for a negative x)
Bits(x) == IF x >= 0
           THEN {i \in 0..30 : (x \div (2 ^ i)) % 2 = 1}
           ELSE Word \ {i \in 0..30 : ((-x - 1) \div (2 ^ i)) % 2 = 1}

Shl(w, k) == {i + k : i \in w} \cap Word

Shr(w, k) == {i - k : i \in w} \cap Word

CM_CLKMODE_DPLL_EN_SHIFT == 0

CM_CLKMODE_DPLL_EN_MASK == 0..2

CM_CLKMODE_DPLL_DPLL_EN_MASK == 0..2

DPLL_EN_MN_BYPASS == 4

DPLL_EN_LOW_POWER_BYPASS == 5

DPLL_EN_FAST_RELOCK_BYPASS == 6

DPLL_EN_LOCK == 7

ST_DPLL_CLK_MASK == {0}

CM_CLKSEL_DPLL_M_SHIFT == 8

CM_CLKSEL_DPLL_M_MASK == 8..18

CM_CLKSEL_DPLL_N_SHIFT == 0

CM_CLKSEL_DPLL_N_MASK == 0..6

\* clrsetbits_le32: the word written back to the register
clrsetbits_le32(w, clear, set) == (w \ clear) \cup set

\* wait_on_value: polls the register until (word & mask) = value or the
\* bound of LDELAY reads is used up; last is the last word read
wait_on_value(mask, value, last) == (last \cap mask) = value

\* the enable field of a mode-control word
EnField(w) == Val(Shr(w \cap CM_CLKMODE_DPLL_EN_MASK, CM_CLKMODE_DPLL_EN_SHIFT))

MField(w) == Val(Shr(w \cap CM_CLKSEL_DPLL_M_MASK, CM_CLKSEL_DPLL_M_SHIFT))

NField(w) == Val(Shr(w \cap CM_CLKSEL_DPLL_N_MASK, CM_CLKSEL_DPLL_N_SHIFT))

\* SetMN without the clearing of the old multiplier and divider fields
SetMN_NoClear(w, mult, div) ==
    w \cup (Shl(Bits(mult), CM_CLKSEL_DPLL_M_SHIFT) \cap CM_CLKSEL_DPLL_M_MASK)
      \cup (Shl(Bits(div - 1), CM_CLKSEL_DPLL_N_SHIFT) \cap CM_CLKSEL_DPLL_N_MASK)

\* SetMN writing the divider itself instead of the divider minus one
SetMN_NoBias(w, mult, div) ==
    ((w \ (CM_CLKSEL_DPLL_M_MASK \cup CM_CLKSEL_DPLL_N_MASK))
        \cup (Shl(Bits(mult), CM_CLKSEL_DPLL_M_SHIFT) \cap CM_CLKSEL_DPLL_M_MASK))
        \cup (Shl(Bits(div), CM_CLKSEL_DPLL_N_SHIFT) \cap CM_CLKSEL_DPLL_N_MASK)

\* "set M & N" of set_rate (lines 100-106) applied to the word w
SetMN(w, mult, div) ==
    LET w1 == w \ CM_CLKSEL_DPLL_M_MASK
        w2 == w1 \cup (Shl(Bits(mult), CM_CLKSEL_DPLL_M_SHIFT) \cap CM_CLKSEL_DPLL_M_MASK)
        w3 == w2 \ CM_CLKSEL_DPLL_N_MASK
    IN  w3 \cup (Shl(Bits(div - 1), CM_CLKSEL_DPLL_N_SHIFT) \cap CM_CLKSEL_DPLL_N_MASK)

\* ------------------------------------------------------------------------
\* clk_ti_am3_dpll_get_rate (lines 124-154): the product is formed in
\* unsigned long and only then widened to u64 for do_div
\* ------------------------------------------------------------------------
clk_ti_am3_dpll_get_rate(clkmode, clksel, ref, byp) ==
    IF EnField(clkmode) \in {DPLL_EN_MN_BYPASS, DPLL_EN_LOW_POWER_BYPASS,
                             DPLL_EN_FAST_RELOCK_BYPASS}
    THEN byp
    ELSE DivU(MulU32(ref, MField(clksel)), NField(clksel) + 1)

\* ------------------------------------------------------------------------
\* State
\* ------------------------------------------------------------------------
VARIABLES
    max_rate,           \* priv->max_rate
    ref_rate,           \* clk_get_rate(&priv->clk_ref)
    bypass_rate,        \* clk_get_rate(&priv->clk_bypass)
    clkmode_reg,        \* the word at priv->clkmode_reg
    idlest_reg,         \* the word at priv->idlest_reg
    clksel_reg,         \* the word at priv->clksel_reg
    last_rounded_mult,  \* priv->last_rounded_mult
    last_rounded_div,   \* priv->last_rounded_div
    pc,                 \* "idle", a position inside set_rate, or "hang"
    op,                 \* the clk_ops entry called last
    arg_rate,           \* its rate argument
    v,                  \* set_rate's local v
    round_rate,         \* set_rate's local round_rate
    ret,                \* the value the last call returned, <<>> if none
    scan,               \* the search record of the last round_rate
    trace,              \* the hardware accesses of the current set_rate
    errlog,             \* the dev_err messages of the current call
    last_set,           \* the rate returned by the last set_rate that programmed the DPLL
    ncalls              \* round_rate and set_rate calls made

vars == <<max_rate, ref_rate, bypass_rate, clkmode_reg, idlest_reg, clksel_reg,
          last_rounded_mult, last_rounded_div, pc, op, arg_rate, v, round_rate,
          ret, scan, trace, errlog, last_set, ncalls>>

config == <<max_rate, ref_rate, bypass_rate>>

\* ------------------------------------------------------------------------
\* Bounds and inputs
\* ------------------------------------------------------------------------
MaxCalls == 2

\* the ceilings of the three driver variants (lines 237-247)
MaxRates == {1000000000, 2000000000}

RefRates == {24000000}

BypassRates == {100000000}

Targets == {100000, 600000000, 854606540, 1500000000}

SearchRefRates == {24000000, 26000000}

SearchTargets ==
    {1, 100000, 187500, 375000, 854606540, 1000000000, 1500000000, 2000000000}
    \cup {k * 2000000 : k \in {1, 2, 3, 4, 5, 6, 12, 13, 24, 25, 48, 50, 75, 96, 100, 125, 150}}

ClkmodeWords == {Bits(e) : e \in 0..7} \cup {Bits(DPLL_EN_LOCK) \cup {8, 12, 31}}

ClkselWords == {Shl(Bits(1000), CM_CLKSEL_DPLL_M_SHIFT) \cup Bits(23), Word}

IdlestWords == {{8}, {0}}

NoScan == SearchInit(U(0))

InitCommon ==
    /\ max_rate \in {U(x) : x \in MaxRates}
    /\ bypass_rate \in {U(x) : x \in BypassRates}
    /\ idlest_reg = IF EnField(clkmode_reg) = DPLL_EN_LOCK THEN {0} ELSE {8}
    /\ last_rounded_mult = 0
    /\ last_rounded_div = 0
    /\ pc = "idle"
    /\ op = "none"
    /\ arg_rate = U(0)
    /\ v = {}
    /\ round_rate = U(0)
    /\ ret = <<>>
    /\ scan = NoScan
    /\ trace = <<>>
    /\ errlog = <<>>
    /\ last_set = <<>>
    /\ ncalls = 0

Init ==
    /\ ref_rate \in {U(x) : x \in RefRates}
    /\ clkmode_reg \in ClkmodeWords
    /\ clksel_reg \in ClkselWords
    /\ InitCommon

InitSearch ==
    /\ ref_rate \in {U(x) : x \in SearchRefRates}
    /\ clkmode_reg = Bits(DPLL_EN_MN_BYPASS)
    /\ clksel_reg = {}
    /\ InitCommon

\* ------------------------------------------------------------------------
\* clk_ops.round_rate
\* ------------------------------------------------------------------------
RoundRateCall(t) ==
    /\ pc = "idle"
    /\ scan' = clk_ti_am3_dpll_round_rate(max_rate, ref_rate, t)
    /\ last_rounded_mult' = StoreU16(scan'.mult)
    /\ last_rounded_div' = StoreU8(scan'.div)
    /\ ret' = scan'.ret
    /\ op' = "round_rate"
    /\ arg_rate' = t
    /\ trace' = <<>>
    /\ errlog' = <<>>
    /\ ncalls' = ncalls + 1
    /\ UNCHANGED <<config, clkmode_reg, idlest_reg, clksel_reg, pc, v, round_rate, last_set>>

RoundRate == \E t \in Targets : ncalls < MaxCalls /\ RoundRateCall(U(t))

\* ------------------------------------------------------------------------
\* clk_ops.set_rate, one action per statement that touches the hardware
\* ------------------------------------------------------------------------
\* SetRateCall without the IS_ERR_VALUE test of line 85
SetRateCall_NoErrCheck(t) ==
    /\ pc = "idle"
    /\ scan' = clk_ti_am3_dpll_round_rate(max_rate, ref_rate, t)
    /\ last_rounded_mult' = StoreU16(scan'.mult)
    /\ last_rounded_div' = StoreU8(scan'.div)
    /\ round_rate' = scan'.ret
    /\ pc' = "readl_clksel"
    /\ ret' = <<>>
    /\ op' = "set_rate"
    /\ arg_rate' = t
    /\ trace' = <<>>
    /\ errlog' = <<>>
    /\ ncalls' = ncalls + 1
    /\ UNCHANGED <<config, clkmode_reg, idlest_reg, clksel_reg, v, last_set>>

\* lines 84-86
SetRateCall(t) ==
    /\ pc = "idle"
    /\ scan' = clk_ti_am3_dpll_round_rate(max_rate, ref_rate, t)
    /\ last_rounded_mult' = StoreU16(scan'.mult)
    /\ last_rounded_div' = StoreU8(scan'.div)
    /\ round_rate' = scan'.ret
    /\ IF IS_ERR_VALUE(round_rate')
       THEN pc' = "idle" /\ ret' = round_rate'
       ELSE pc' = "readl_clksel" /\ ret' = <<>>
    /\ op' = "set_rate"
    /\ arg_rate' = t
    /\ trace' = <<>>
    /\ errlog' = <<>>
    /\ ncalls' = ncalls + 1
    /\ UNCHANGED <<config, clkmode_reg, idlest_reg, clksel_reg, v, last_set>>

SetRate == \E t \in Targets : ncalls < MaxCalls /\ SetRateCall(U(t))

\* line 88
ReadClksel ==
    /\ pc = "readl_clksel"
    /\ v' = clksel_reg
    /\ trace' = Append(trace, "readl clksel")
    /\ pc' = "enter_bypass"
    /\ UNCHANGED <<config, clkmode_reg, idlest_reg, clksel_reg, last_rounded_mult,
                   last_rounded_div, op, arg_rate, round_rate, ret, scan, errlog,
                   last_set, ncalls>>

\* EnterBypass followed at once by the programming, the bypass poll left out
EnterBypass_NoWait ==
    /\ pc = "enter_bypass"
    /\ clkmode_reg' = clrsetbits_le32(clkmode_reg, CM_CLKMODE_DPLL_DPLL_EN_MASK,
                          Shl(Bits(DPLL_EN_MN_BYPASS), CM_CLKMODE_DPLL_EN_SHIFT))
    /\ trace' = Append(trace, "clrsetbits clkmode bypass")
    /\ pc' = "set_mn"
    /\ UNCHANGED <<config, idlest_reg, clksel_reg, last_rounded_mult,
                   last_rounded_div, op, arg_rate, v, round_rate, ret, scan, errlog,
                   last_set, ncalls>>

\* lines 91-92
EnterBypass ==
    /\ pc = "enter_bypass"
    /\ clkmode_reg' = clrsetbits_le32(clkmode_reg, CM_CLKMODE_DPLL_DPLL_EN_MASK,
                          Shl(Bits(DPLL_EN_MN_BYPASS), CM_CLKMODE_DPLL_EN_SHIFT))
    /\ trace' = Append(trace, "clrsetbits clkmode bypass")
    /\ pc' = "wait_bypass"
    /\ UNCHANGED <<config, idlest_reg, clksel_reg, last_rounded_mult,
                   last_rounded_div, op, arg_rate, v, round_rate, ret, scan, errlog,
                   last_set, ncalls>>

\* WaitBypass returning -ETIMEDOUT when the poll times out
WaitBypass_Abort ==
    /\ pc = "wait_bypass"
    /\ \E w \in IdlestWords :
          /\ idlest_reg' = w
          /\ IF wait_on_value(ST_DPLL_CLK_MASK, {}, w)
             THEN errlog' = errlog /\ pc' = "set_mn" /\ ret' = ret
             ELSE /\ errlog' = Append(errlog, "failed bypassing dpll")
                  /\ pc' = "idle"
                  /\ ret' = ErrVal(110)
    /\ trace' = Append(trace, "wait_on_value bypass")
    /\ UNCHANGED <<config, clkmode_reg, clksel_reg, last_rounded_mult,
                   last_rounded_div, op, arg_rate, v, round_rate, scan,
                   last_set, ncalls>>

\* lines 95-97: the status word is the hardware's; a timeout is only logged
WaitBypass ==
    /\ pc = "wait_bypass"
    /\ \E w \in IdlestWords :
          /\ idlest_reg' = w
          /\ errlog' = IF wait_on_value(ST_DPLL_CLK_MASK, {}, w)
                       THEN errlog
                       ELSE Append(errlog, "failed bypassing dpll")
    /\ trace' = Append(trace, "wait_on_value bypass")
    /\ pc' = "set_mn"
    /\ UNCHANGED <<config, clkmode_reg, clksel_reg, last_rounded_mult,
                   last_rounded_div, op, arg_rate, v, round_rate, ret, scan,
                   last_set, ncalls>>

\* lines 100-108
WriteClksel ==
    /\ pc = "set_mn"
    /\ v' = SetMN(v, last_rounded_mult, last_rounded_div)
    /\ clksel_reg' = v'
    /\ trace' = Append(trace, "writel clksel")
    /\ pc' = "lock"
    /\ UNCHANGED <<config, clkmode_reg, idlest_reg, last_rounded_mult,
                   last_rounded_div, op, arg_rate, round_rate, ret, scan, errlog,
                   last_set, ncalls>>

\* lines 111-112
LockDpll ==
    /\ pc = "lock"
    /\ clkmode_reg' = clrsetbits_le32(clkmode_reg, CM_CLKMODE_DPLL_DPLL_EN_MASK,
                          Shl(Bits(DPLL_EN_LOCK), CM_CLKMODE_DPLL_EN_SHIFT))
    /\ trace' = Append(trace, "clrsetbits clkmode lock")
    /\ pc' = "wait_lock"
    /\ UNCHANGED <<config, idlest_reg, clksel_reg, last_rounded_mult,
                   last_rounded_div, op, arg_rate, v, round_rate, ret, scan, errlog,
                   last_set, ncalls>>

\* WaitLock without the hang(): a timeout is logged and the rate returned
WaitLock_NoHang ==
    /\ pc = "wait_lock"
    /\ \E w \in IdlestWords :
          /\ idlest_reg' = w
          /\ errlog' = IF wait_on_value(ST_DPLL_CLK_MASK, ST_DPLL_CLK_MASK, w)
                       THEN errlog
                       ELSE Append(errlog, "failed locking dpll")
    /\ pc' = "idle"
    /\ ret' = round_rate
    /\ last_set' = round_rate
    /\ trace' = Append(trace, "wait_on_value lock")
    /\ UNCHANGED <<config, clkmode_reg, clksel_reg, last_rounded_mult,
                   last_rounded_div, op, arg_rate, v, round_rate, scan, ncalls>>

\* lines 115-121: a timeout is logged and hang() never returns
WaitLock ==
    /\ pc = "wait_lock"
    /\ \E w \in IdlestWords :
          /\ idlest_reg' = w
          /\ IF wait_on_value(ST_DPLL_CLK_MASK, ST_DPLL_CLK_MASK, w)
             THEN /\ errlog' = errlog
                  /\ pc' = "idle"
                  /\ ret' = round_rate
                  /\ last_set' = round_rate
             ELSE /\ errlog' = Append(errlog, "failed locking dpll")
                  /\ pc' = "hang"
                  /\ UNCHANGED <<ret, last_set>>
    /\ trace' = Append(trace, "wait_on_value lock")
    /\ UNCHANGED <<config, clkmode_reg, clksel_reg, last_rounded_mult,
                   last_rounded_div, op, arg_rate, v, round_rate, scan, ncalls>>

\* ------------------------------------------------------------------------
\* clk_ops.get_rate
\* ------------------------------------------------------------------------
GetRate ==
    /\ pc = "idle"
    /\ op # "get_rate"
    /\ ret' = clk_ti_am3_dpll_get_rate(clkmode_reg, clksel_reg, ref_rate, bypass_rate)
    /\ op' = "get_rate"
    /\ trace' = <<>>
    /\ errlog' = <<>>
    /\ UNCHANGED <<config, clkmode_reg, idlest_reg, clksel_reg, last_rounded_mult,
                   last_rounded_div, pc, arg_rate, v, round_rate, scan, last_set, ncalls>>

Next ==
    \/ RoundRate
    \/ SetRate
    \/ ReadClksel
    \/ EnterBypass
    \/ WaitBypass
    \/ WriteClksel
    \/ LockDpll
    \/ WaitLock
    \/ GetRate

Spec == Init /\ [][Next]_vars

\* round_rate alone, applied once to each input
SearchApply == \E t \in SearchTargets : ncalls = 0 /\ RoundRateCall(U(t))

NextSearch == SearchApply

SpecSearch == InitSearch /\ [][NextSearch]_vars

\* ------------------------------------------------------------------------
\* Properties
\* ------------------------------------------------------------------------
\* floor(ref * m / d) without loss (the high digit may exceed 65535)
ExactRate(ref, m, d) == DivU(MulWide(ref, m), d)

\* |a - b| without loss
AbsDiffWide(a, b) ==
    LET hi == IF LtU(a, b) THEN b ELSE a
        lo == IF LtU(a, b) THEN a ELSE b
    IN  <<hi[1] - lo[1] - (IF hi[2] < lo[2] THEN 1 ELSE 0), (hi[2] - lo[2]) % B>>

Logged(msg) == \E i \in 1..Len(errlog) : errlog[i] = msg

IsBypassField(e) ==
    e \in {DPLL_EN_MN_BYPASS, DPLL_EN_LOW_POWER_BYPASS, DPLL_EN_FAST_RELOCK_BYPASS}

\* the hardware accesses of a set_rate that passed the search, in order
SetRateOrder ==
    <<"readl clksel", "clrsetbits clkmode bypass", "wait_on_value bypass",
      "writel clksel", "clrsetbits clkmode lock", "wait_on_value lock">>

\* round_rate or set_rate has returned a rate, not an error value
ReturnedRate ==
    /\ op \in {"round_rate", "set_rate"}
    /\ pc = "idle"
    /\ ret # <<>>
    /\ ~IS_ERR_VALUE(ret)

\* C1: for a positive reference rate and a positive target, when round_rate
\* returns a rate the stored pair is in range (1 <= div <= 128,
\* 2 <= mult <= 2047), the returned rate is floor(ref * mult / div), no pair
\* of the range has a strictly smaller error |floor(ref * m / d) - target|,
\* and among the pairs of minimum error the stored one has the smallest
\* divider and then the smallest multiplier.
C1_SearchEqualsExhaustiveScan ==
    (op = "round_rate" /\ ~IS_ERR_VALUE(ret) /\ ref_rate # U(0) /\ arg_rate # U(0)) =>
        LET eff == ClampRate(max_rate, arg_rate)
            e0  == AbsDiffWide(ExactRate(ref_rate, last_rounded_mult, last_rounded_div), eff)
        IN  /\ last_rounded_div \in 1..DivMax
            /\ last_rounded_mult \in MultMin..MultMax
            /\ ret = ExactRate(ref_rate, last_rounded_mult, last_rounded_div)
            /\ \A d \in 1..DivMax : \A m \in MultMin..MultMax :
                  LET e == AbsDiffWide(ExactRate(ref_rate, m, d), eff)
                  IN  /\ ~LtU(e, e0)
                      /\ (e = e0) => \/ d > last_rounded_div
                                     \/ (d = last_rounded_div /\ m >= last_rounded_mult)

\* C2: with a non-zero ceiling, a rate returned by round_rate or set_rate
\* does not exceed max_rate.
C2_ReturnedRateWithinCeiling ==
    (ReturnedRate /\ max_rate # U(0)) => ~LtU(max_rate, ret)

\* C3: a set_rate whose lock poll times out reaches the halt and returns
\* nothing; a set_rate returns a rate only after the lock poll has seen the
\* locked bit.
C3_LockTimeoutHangs ==
    /\ Logged("failed locking dpll") => (pc = "hang" /\ ret = <<>>)
    /\ (op = "set_rate" /\ ReturnedRate) =>
          /\ Len(trace) = 6
          /\ trace[6] = "wait_on_value lock"
          /\ idlest_reg \cap ST_DPLL_CLK_MASK = ST_DPLL_CLK_MASK

C3_Witness == op = "set_rate" /\ pc = "hang" /\ Logged("failed locking dpll")

\* C4: a set_rate whose bypass poll times out does not abort: it goes on to
\* write the select register with the new multiplier and divider, to write
\* lock mode, to poll for lock, and on lock returns the rate of the search.
C4_BypassTimeoutContinues ==
    (op = "set_rate" /\ Logged("failed bypassing dpll")) =>
        /\ pc \in {"set_mn", "lock", "wait_lock", "idle", "hang"}
        /\ pc = "hang" => Logged("failed locking dpll")
        /\ pc = "idle" =>
              /\ trace = SetRateOrder
              /\ MField(clksel_reg) = scan.mult
              /\ NField(clksel_reg) = scan.div - 1
              /\ EnField(clkmode_reg) = DPLL_EN_LOCK
              /\ ~IS_ERR_VALUE(ret)
              /\ ret = scan.ret

C4_Witness ==
    /\ op = "set_rate"
    /\ pc = "idle"
    /\ Logged("failed bypassing dpll")
    /\ ret = scan.ret
    /\ trace = SetRateOrder

\* C5: when the search of set_rate finds no solution, set_rate returns the
\* error value at once: no register is read or written, no poll is made, and
\* only last_rounded_mult and last_rounded_div change.
C5_NoSolutionLeavesHardware ==
    [][(op' = "set_rate" /\ ncalls' = ncalls + 1 /\ IS_ERR_VALUE(scan'.ret)) =>
          /\ pc' = "idle"
          /\ ret' = scan'.ret
          /\ trace' = <<>>
          /\ errlog' = <<>>
          /\ UNCHANGED <<clkmode_reg, clksel_reg, idlest_reg, config>>]_vars

C5_Witness ==
    /\ op = "set_rate"
    /\ pc = "idle"
    /\ ret = ErrVal(EFAULT)
    /\ trace = <<>>
    /\ last_rounded_mult = StoreU16(INT_MAX)

\* C6: get_rate returns the bypass clock's rate when the enable field holds
\* one of the three bypass encodings, whatever the select register holds,
\* and floor(ref * m / (n + 1)) of the select register's fields otherwise.
C6_GetRateDecodes ==
    (op = "get_rate" /\ pc = "idle") =>
        ret = IF IsBypassField(EnField(clkmode_reg))
              THEN bypass_rate
              ELSE ExactRate(ref_rate, MField(clksel_reg), NField(clksel_reg) + 1)

\* C7: a set_rate that passed the search makes its hardware accesses in the
\* order of SetRateOrder, each once; the select register is written while
\* the enable field holds the bypass encoding, never after the lock write.
C7_FixedOrder ==
    (op = "set_rate" /\ ~IS_ERR_VALUE(round_rate)) =>
        /\ Len(trace) <= 6
        /\ trace = SubSeq(SetRateOrder, 1, Len(trace))
        /\ pc = "readl_clksel" <=> Len(trace) = 0
        /\ pc = "enter_bypass" <=> Len(trace) = 1
        /\ pc = "wait_bypass" <=> Len(trace) = 2
        /\ pc = "set_mn" <=> Len(trace) = 3
        /\ pc = "lock" <=> Len(trace) = 4
        /\ pc = "wait_lock" <=> Len(trace) = 5
        /\ pc \in {"idle", "hang"} <=> Len(trace) = 6
        /\ pc \in {"wait_bypass", "set_mn", "lock"} =>
              EnField(clkmode_reg) = DPLL_EN_MN_BYPASS
        /\ pc \in {"wait_lock", "idle", "hang"} =>
              EnField(clkmode_reg) = DPLL_EN_LOCK

C7_Witness == op = "set_rate" /\ pc = "idle" /\ trace = SetRateOrder

\* C8: the word set_rate writes to the select register is the word it read
\* with the multiplier field replaced by last_rounded_mult and the divider
\* field by last_rounded_div - 1; the other bits are kept and neither value
\* loses a bit to its field mask.
C8_SelectWordWritten ==
    /\ [](pc \in {"enter_bypass", "wait_bypass", "set_mn"} => v = clksel_reg)
    /\ [][pc = "set_mn" =>
            /\ last_rounded_mult \in MultMin..MultMax
            /\ last_rounded_div \in 1..DivMax
            /\ last_rounded_mult = scan.mult
            /\ last_rounded_div = scan.div
            /\ clksel_reg' = (v \ (CM_CLKSEL_DPLL_M_MASK \cup CM_CLKSEL_DPLL_N_MASK))
                             \cup Shl(Bits(last_rounded_mult), CM_CLKSEL_DPLL_M_SHIFT)
                             \cup Shl(Bits(last_rounded_div - 1), CM_CLKSEL_DPLL_N_SHIFT)
            /\ MField(clksel_reg') = last_rounded_mult
            /\ NField(clksel_reg') = last_rounded_div - 1]_vars

C8_Witness ==
    /\ pc = "lock"
    /\ clksel_reg = v
    /\ MField(clksel_reg) = last_rounded_mult
    /\ NField(clksel_reg) = last_rounded_div - 1
    /\ clksel_reg \ (CM_CLKSEL_DPLL_M_MASK \cup CM_CLKSEL_DPLL_N_MASK) # {}

\* C9: for every pair the search evaluates, the product ref_rate * m does
\* not wrap modulo 2^32 and the error is the exact |candidate - target|, not
\* truncated by its conversion to a signed value.
C9_SearchArithmeticExact ==
    op \in {"round_rate", "set_rate"} =>
        (~scan.wrapped /\ ~scan.trunc /\ ~scan.ub)

\* C10: once set_rate has returned a rate A, get_rate takes the locked
\* branch and returns A.
C10_SetGetConsistent ==
    (op = "get_rate" /\ pc = "idle" /\ last_set # <<>>) =>
        /\ EnField(clkmode_reg) = DPLL_EN_LOCK
        /\ ret = last_set

C10_Witness ==
    /\ op = "get_rate"
    /\ pc = "idle"
    /\ last_set # <<>>
    /\ ret = last_set
    /\ MField(clksel_reg) = scan.mult
====
